---- MODULE Spec2Model ----
(***************************************************************************)
(* Model of scanpy/get.py: rank_genes_groups_df, obs_df and var_df.        *)
(*                                                                         *)
(* Every call is one behaviour: Init draws the function and its arguments, *)
(* the action named after the function runs its whole body and records     *)
(* the outcome (the exception raised or the table returned) together with  *)
(* the local lists of the resolution pass and the vector-accessor calls.   *)
(*                                                                         *)
(* Conventions                                                             *)
(*   - Python None is the string None for str arguments, and the empty     *)
(*     sequence for Optional[float] arguments (<<v>> is the float v).      *)
(*   - floats are integers (p-values are scaled by 100).                   *)
(*   - a DataFrame under construction is the sequence of its columns in    *)
(*     column order; a column is a record [name, src, key, layer, data].   *)
(*   - adata.obs_vector / adata.raw.obs_vector / adata.var_vector belong   *)
(*     to the container: a column fetched through them records the         *)
(*     accessor (src), the lookup key and the layer of the call.           *)
(*   - the keys argument is an Iterable[str]: its items (keys) and whether  *)
(*     it can be iterated again (keys_kind "list") or is spent by its      *)
(*     first iteration (keys_kind "iterator": iter(...), a generator).     *)
(*   - the container is a fixed instance, with a raw substitute whose      *)
(*     var_names and symbol column differ from the primary ones.           *)
(***************************************************************************)
EXTENDS Integers, Sequences, FiniteSets, TLC

VARIABLES fn, keys, keys_kind, m_keys, layer, gene_symbols, use_raw,
          group, pval_cutoff, log2fc_min, log2fc_max,
          pc, status, err_keys, lookup_keys, not_found, found_twice,
          fetched, df, d_columns, d

vars == <<fn, keys, keys_kind, m_keys, layer, gene_symbols, use_raw,
          group, pval_cutoff, log2fc_min, log2fc_max,
          pc, status, err_keys, lookup_keys, not_found, found_twice,
          fetched, df, d_columns, d>>

(***************************************************************************)
(* Bounds                                                                  *)
(***************************************************************************)
MaxKeys == 2

MaxRefs == 2

SeqsUpTo(S, n) == UNION {[1..m -> S] : m \in 0..n}

Range(s) == {s[i] : i \in 1..Len(s)}

None == "None"

(***************************************************************************)
(* The container                                                           *)
(***************************************************************************)
adata_obs_columns == {"louvain", "g1", "g3", "A"}

adata_var_names == <<"g1", "g2">>

adata_var_sym == <<"A", "B">>

adata_raw_var_names == <<"g1", "g2", "g3">>

adata_raw_var_sym == <<"B", "A", "C">>

adata_var_columns == {"sym", "c1", "c3", "PCs-0"}

adata_obs_names == <<"c1", "c2", "c3">>

adata_obsm ==
    [X_umap |-> [kind |-> "ndarray",   labels |-> <<>>,
                 data |-> << <<1, 2, 3>>, <<4, 5, 6>> >>],
     X_sp   |-> [kind |-> "spmatrix",  labels |-> <<>>,
                 data |-> << <<0, 7, 0>>, <<8, 0, 9>> >>],
     X_tab  |-> [kind |-> "DataFrame", labels |-> <<1, 2, 5>>,
                 data |-> << <<10, 11, 12>>, <<13, 14, 15>> >>],
     X_aw   |-> [kind |-> "other",     labels |-> <<>>,
                 data |-> << <<16, 17, 18>>, <<19, 20, 21>> >>]]

adata_varm ==
    [PCs    |-> [kind |-> "ndarray",   labels |-> <<>>,
                 data |-> << <<1, 2, 3>>, <<4, 5, 6>> >>],
     L_sp   |-> [kind |-> "spmatrix",  labels |-> <<>>,
                 data |-> << <<0, 7, 0>>, <<8, 0, 9>> >>],
     L_tab  |-> [kind |-> "DataFrame", labels |-> <<2, 0, 1>>,
                 data |-> << <<10, 11, 12>>, <<13, 14, 15>> >>],
     L_aw   |-> [kind |-> "other",     labels |-> <<>>,
                 data |-> << <<16, 17, 18>>, <<19, 20, 21>> >>]]

(***************************************************************************)
(* DataFrame construction shared by obs_df and var_df                      *)
(***************************************************************************)
HasColumn(frame, name) == \E i \in 1..Len(frame) : frame[i].name = name

\* df[name] = value : overwrite the column in place when the name exists,
\* append a new last column otherwise
DfSet(frame, col) ==
    IF HasColumn(frame, col.name)
    THEN [i \in 1..Len(frame) |->
             IF frame[i].name = col.name THEN col ELSE frame[i]]
    ELSE Append(frame, col)

\* f"{k}-{idx}"
added_k(k, idx) == k \o "-" \o ToString(idx)

\* val[:, idx] flattened, idx counted from 0
matrix_column(val, idx) == [r \in 1..Len(val.data) |-> val.data[r][idx + 1]]

\* val.loc[:, idx] : selection by column LABEL; KeyError when no column
\* carries the label idx
loc_has(val, idx) == \E j \in 1..Len(val.labels) : val.labels[j] = idx

loc_column(val, idx) ==
    LET j == CHOOSE c \in 1..Len(val.labels) : val.labels[c] = idx
    IN  [r \in 1..Len(val.data) |-> val.data[r][j]]

\* one iteration of `for k, idx in obsm_keys` on the frame acc.df
embed_step(acc, store, src, ref) ==
    LET k   == ref[1]
        idx == ref[2]
        val == store[k]
        col(data) == [name |-> added_k(k, idx), src |-> src, key |-> k,
                      layer |-> None, data |-> data]
    IN  IF acc.raised THEN acc
        ELSE IF val.kind = "ndarray"
             THEN [acc EXCEPT !.df = DfSet(acc.df, col(matrix_column(val, idx)))]
        ELSE IF val.kind = "spmatrix"
             THEN [acc EXCEPT !.df = DfSet(acc.df, col(matrix_column(val, idx)))]
        ELSE IF val.kind = "DataFrame"
             THEN IF loc_has(val, idx)
                  THEN [acc EXCEPT !.df = DfSet(acc.df, col(loc_column(val, idx)))]
                  ELSE [acc EXCEPT !.raised = TRUE]
        ELSE acc

embed_loop(frame, store, src, refs) ==
    LET f[i \in 0..Len(refs)] ==
            IF i = 0 THEN [raised |-> FALSE, df |-> frame]
            ELSE embed_step(f[i - 1], store, src, refs[i])
    IN  f[Len(refs)]

(***************************************************************************)
(* obs_df                                                                  *)
(***************************************************************************)
\* mutant: the test is made against the absence of a layer
obs_df_conflict_no_layer(p_use_raw, p_layer) == p_use_raw /\ p_layer = None

\* if use_raw and layer is not None: raise ValueError
obs_df_conflict(p_use_raw, p_layer) == p_use_raw /\ p_layer # None

\* ad = adata.raw if use_raw else adata ; ad.var_names
ad_var_names(p_use_raw) ==
    IF p_use_raw THEN adata_raw_var_names ELSE adata_var_names

\* idx = ad.var_names if gene_symbols is None else ad.var[gene_symbols]
gene_names_index(p_gene_symbols, p_use_raw) ==
    IF p_gene_symbols = None THEN ad_var_names(p_use_raw)
    ELSE IF p_use_raw THEN adata_raw_var_sym ELSE adata_var_sym

\* gene_names = pd.Series(ad.var_names, index=idx) ; gene_names[key]
gene_names(p_gene_symbols, p_use_raw) ==
    LET idx == gene_names_index(p_gene_symbols, p_use_raw)
    IN  [a \in Range(idx) |->
            ad_var_names(p_use_raw)[CHOOSE j \in 1..Len(idx) : idx[j] = a]]

\* mutant: a key found in both namespaces is accepted as a metadata column
\* and not recorded in found_twice
obs_df_step_warn_only(acc, key, p_gene_symbols, p_use_raw) ==
    LET in_obs       == key \in adata_obs_columns
        in_var_index == key \in DOMAIN gene_names(p_gene_symbols, p_use_raw)
        lk1 == IF in_obs THEN Append(acc.lookup_keys, key) ELSE acc.lookup_keys
        lk2 == IF in_var_index /\ ~in_obs
               THEN Append(lk1, gene_names(p_gene_symbols, p_use_raw)[key])
               ELSE lk1
    IN  [lookup_keys |-> lk2,
         not_found   |-> IF ~(in_obs \/ in_var_index)
                         THEN Append(acc.not_found, key) ELSE acc.not_found,
         found_twice |-> acc.found_twice]

\* body of `for key in keys` in obs_df
obs_df_step(acc, key, p_gene_symbols, p_use_raw) ==
    LET in_obs       == key \in adata_obs_columns
        in_var_index == key \in DOMAIN gene_names(p_gene_symbols, p_use_raw)
        lk1 == IF in_obs THEN Append(acc.lookup_keys, key) ELSE acc.lookup_keys
        lk2 == IF in_var_index /\ ~in_obs
               THEN Append(lk1, gene_names(p_gene_symbols, p_use_raw)[key])
               ELSE lk1
    IN  [lookup_keys |-> lk2,
         not_found   |-> IF ~(in_obs \/ in_var_index)
                         THEN Append(acc.not_found, key) ELSE acc.not_found,
         found_twice |-> IF ~(in_obs \/ in_var_index) THEN acc.found_twice
                         ELSE IF in_obs /\ in_var_index
                              THEN Append(acc.found_twice, key)
                              ELSE acc.found_twice]

obs_df_resolve(p_keys, p_gene_symbols, p_use_raw) ==
    LET f[i \in 0..Len(p_keys)] ==
            IF i = 0
            THEN [lookup_keys |-> <<>>, not_found |-> <<>>, found_twice |-> <<>>]
            ELSE obs_df_step(f[i - 1], p_keys[i], p_gene_symbols, p_use_raw)
    IN  f[Len(p_keys)]

\* the raise decision after the resolution pass of obs_df
obs_df_raise(r) ==
    IF Len(r.not_found) > 0 \/ Len(r.found_twice) > 0
    THEN IF Len(r.found_twice) > 0
         THEN [status |-> "KeyError:found_twice", err_keys |-> r.found_twice]
         ELSE [status |-> "KeyError:not_found", err_keys |-> r.not_found]
    ELSE [status |-> "ok", err_keys |-> <<>>]

\* the vector read for the pair (k, l) of zip(keys, lookup_keys)
obs_df_fetch(k, l, p_layer, p_use_raw) ==
    IF ~p_use_raw \/ k \in adata_obs_columns
    THEN [name |-> k, src |-> "adata.obs_vector", key |-> l,
          layer |-> p_layer, data |-> <<>>]
    ELSE [name |-> k, src |-> "adata.raw.obs_vector", key |-> l,
          layer |-> None, data |-> <<>>]

Min(a, b) == IF a < b THEN a ELSE b

\* what iterating `keys` a second time yields, after `for key in keys` has
\* run it to its end: the items again for a list, nothing for an iterator
iterate_again(p_keys, p_keys_kind) ==
    IF p_keys_kind = "iterator" THEN <<>> ELSE p_keys

\* for k, l in zip(keys, lookup_keys): the sequence of reads, in loop order;
\* zip stops at the shorter of its two arguments
obs_df_reads(p_keys, p_keys_kind, p_lookup_keys, p_layer, p_use_raw) ==
    LET again == iterate_again(p_keys, p_keys_kind)
    IN  [i \in 1..Min(Len(again), Len(p_lookup_keys)) |->
            obs_df_fetch(again[i], p_lookup_keys[i], p_layer, p_use_raw)]

\* df[k] = ... for every read, in loop order
assign_all(reads) ==
    LET f[i \in 0..Len(reads)] ==
            IF i = 0 THEN <<>> ELSE DfSet(f[i - 1], reads[i])
    IN  f[Len(reads)]

NoCall ==
    [status |-> "none", err_keys |-> <<>>, lookup_keys |-> <<>>,
     not_found |-> <<>>, found_twice |-> <<>>, fetched |-> <<>>, df |-> <<>>]

obs_df_result(p_keys, p_keys_kind, p_obsm_keys, p_layer, p_gene_symbols, p_use_raw) ==
    IF obs_df_conflict(p_use_raw, p_layer)
    THEN [NoCall EXCEPT !.status = "ValueError"]
    ELSE
    LET r     == obs_df_resolve(p_keys, p_gene_symbols, p_use_raw)
        e     == obs_df_raise(r)
        reads == obs_df_reads(p_keys, p_keys_kind, r.lookup_keys, p_layer,
                              p_use_raw)
        emb   == embed_loop(assign_all(reads), adata_obsm, "adata.obsm",
                            p_obsm_keys)
        base  == [NoCall EXCEPT !.lookup_keys = r.lookup_keys,
                                !.not_found = r.not_found,
                                !.found_twice = r.found_twice]
    IN  IF e.status # "ok"
        THEN [base EXCEPT !.status = e.status, !.err_keys = e.err_keys]
        ELSE IF emb.raised
        THEN [base EXCEPT !.status = "KeyError:loc", !.fetched = reads]
        ELSE [base EXCEPT !.status = "ok", !.fetched = reads, !.df = emb.df]

(***************************************************************************)
(* var_df                                                                  *)
(***************************************************************************)
\* body of `for key in keys` in var_df
var_df_step(acc, key) ==
    LET in_var       == key \in adata_var_columns
        in_obs_index == key \in Range(adata_obs_names)
        lk1 == IF in_var THEN Append(acc.lookup_keys, key) ELSE acc.lookup_keys
        lk2 == IF in_obs_index /\ ~in_var THEN Append(lk1, key) ELSE lk1
    IN  [lookup_keys |-> lk2,
         not_found   |-> IF ~(in_var \/ in_obs_index)
                         THEN Append(acc.not_found, key) ELSE acc.not_found,
         found_twice |-> IF ~(in_var \/ in_obs_index) THEN acc.found_twice
                         ELSE IF in_var /\ in_obs_index
                              THEN Append(acc.found_twice, key)
                              ELSE acc.found_twice]

var_df_resolve(p_keys) ==
    LET f[i \in 0..Len(p_keys)] ==
            IF i = 0
            THEN [lookup_keys |-> <<>>, not_found |-> <<>>, found_twice |-> <<>>]
            ELSE var_df_step(f[i - 1], p_keys[i])
    IN  f[Len(p_keys)]

\* the two raise statements after the resolution pass of var_df
var_df_raise(r) ==
    IF Len(r.found_twice) > 0
    THEN [status |-> "KeyError:found_twice", err_keys |-> r.found_twice]
    ELSE IF Len(r.not_found) > 0
    THEN [status |-> "KeyError:not_found", err_keys |-> r.not_found]
    ELSE [status |-> "ok", err_keys |-> <<>>]

var_df_fetch(k, l, p_layer) ==
    [name |-> k, src |-> "adata.var_vector", key |-> l,
     layer |-> p_layer, data |-> <<>>]

var_df_reads(p_keys, p_keys_kind, p_lookup_keys, p_layer) ==
    LET again == iterate_again(p_keys, p_keys_kind)
    IN  [i \in 1..Min(Len(again), Len(p_lookup_keys)) |->
            var_df_fetch(again[i], p_lookup_keys[i], p_layer)]

var_df_result(p_keys, p_keys_kind, p_varm_keys, p_layer) ==
    LET r     == var_df_resolve(p_keys)
        e     == var_df_raise(r)
        reads == var_df_reads(p_keys, p_keys_kind, r.lookup_keys, p_layer)
        emb   == embed_loop(assign_all(reads), adata_varm, "adata.varm",
                            p_varm_keys)
        base  == [NoCall EXCEPT !.lookup_keys = r.lookup_keys,
                                !.not_found = r.not_found,
                                !.found_twice = r.found_twice]
    IN  IF e.status # "ok"
        THEN [base EXCEPT !.status = e.status, !.err_keys = e.err_keys]
        ELSE IF emb.raised
        THEN [base EXCEPT !.status = "KeyError:loc", !.fetched = reads]
        ELSE [base EXCEPT !.status = "ok", !.fetched = reads, !.df = emb.df]

(***************************************************************************)
(* rank_genes_groups_df                                                    *)
(***************************************************************************)
\* adata.uns["rank_genes_groups"]: per field, one array per stored group
adata_uns ==
    [scores         |-> ("0" :> <<9, 5, 2>>)          @@ ("1" :> <<7, 7, 3, 1>>),
     names          |-> ("0" :> <<"g1", "g2", "g9">>) @@ ("1" :> <<"g2", "g9", "g1", "g1">>),
     logfoldchanges |-> ("0" :> <<3, -1, 0>>)         @@ ("1" :> <<1, 3, 0, -2>>),
     pvals          |-> ("0" :> <<0, 10, 40>>)        @@ ("1" :> <<2, 5, 5, 90>>),
     pvals_adj      |-> ("0" :> <<1, 20, 50>>)        @@ ("1" :> <<5, 20, 20, 95>>)]

\* for k in ['scores', 'names', 'logfoldchanges', 'pvals', 'pvals_adj']
rank_columns == <<"scores", "names", "logfoldchanges", "pvals", "pvals_adj">>

\* adata.uns[key][k][group] exists for the label
group_stored(p_group) ==
    \A i \in 1..Len(rank_columns) : p_group \in DOMAIN adata_uns[rank_columns[i]]

\* d = pd.DataFrame(); d[k] = adata.uns[key][k][group]
group_table(p_group) ==
    [i \in 1..Len(adata_uns.scores[p_group]) |->
        [scores         |-> adata_uns.scores[p_group][i],
         names          |-> adata_uns.names[p_group][i],
         logfoldchanges |-> adata_uns.logfoldchanges[p_group][i],
         pvals          |-> adata_uns.pvals[p_group][i],
         pvals_adj      |-> adata_uns.pvals_adj[p_group][i],
         joined         |-> <<>>]]

\* mutant: the comparison with the cutoff is not strict
filter_pval_le(rows, p_pval_cutoff) ==
    LET keep(r) == r.pvals_adj <= p_pval_cutoff[1]
    IN  IF p_pval_cutoff # <<>> THEN SelectSeq(rows, keep) ELSE rows

\* d = d[d["pvals_adj"] < pval_cutoff]
filter_pval(rows, p_pval_cutoff) ==
    LET keep(r) == r.pvals_adj < p_pval_cutoff[1]
    IN  IF p_pval_cutoff # <<>> THEN SelectSeq(rows, keep) ELSE rows

\* d = d[d["logfoldchanges"] > log2fc_min]
filter_min(rows, p_log2fc_min) ==
    LET keep(r) == r.logfoldchanges > p_log2fc_min[1]
    IN  IF p_log2fc_min # <<>> THEN SelectSeq(rows, keep) ELSE rows

\* d = d[d["logfoldchanges"] < log2fc_max]
filter_max(rows, p_log2fc_max) ==
    LET keep(r) == r.logfoldchanges < p_log2fc_max[1]
    IN  IF p_log2fc_max # <<>> THEN SelectSeq(rows, keep) ELSE rows

\* d = d.join(adata.var[gene_symbols], on="names") : left join on the var
\* index; a name that is no var_name gets a missing value
join_symbols(rows, p_gene_symbols) ==
    LET sym(n) == IF n \in Range(adata_var_names)
                  THEN <<adata_var_sym[CHOOSE j \in 1..Len(adata_var_names) :
                                          adata_var_names[j] = n]>>
                  ELSE <<>>
    IN  IF p_gene_symbols # None
        THEN [i \in 1..Len(rows) |-> [rows[i] EXCEPT !.joined = sym(rows[i].names)]]
        ELSE rows

\* the table returned for the rows taken from the store
rank_table(rows, p_pval_cutoff, p_log2fc_min, p_log2fc_max, p_gene_symbols) ==
    [status    |-> "ok",
     d_columns |-> IF p_gene_symbols # None
                   THEN Append(rank_columns, p_gene_symbols)
                   ELSE rank_columns,
     d         |-> join_symbols(
                       filter_max(
                         filter_min(filter_pval(rows, p_pval_cutoff),
                                    p_log2fc_min),
                         p_log2fc_max),
                       p_gene_symbols)]

\* mutant: a label that is not stored yields the arrays of no row
rank_genes_groups_df_lenient(p_group, p_pval_cutoff, p_log2fc_min, p_log2fc_max, p_gene_symbols) ==
    rank_table(IF group_stored(p_group) THEN group_table(p_group) ELSE <<>>,
               p_pval_cutoff, p_log2fc_min, p_log2fc_max, p_gene_symbols)

\* the subscript adata.uns[key][k][group] raises for a label that is not
\* stored (KeyError of a mapping, ValueError of a numpy record array)
rank_genes_groups_df_result(p_group, p_pval_cutoff, p_log2fc_min, p_log2fc_max, p_gene_symbols) ==
    IF ~group_stored(p_group)
    THEN [status |-> "Error:group", d_columns |-> <<>>, d |-> <<>>]
    ELSE rank_table(group_table(p_group), p_pval_cutoff, p_log2fc_min,
                    p_log2fc_max, p_gene_symbols)

(***************************************************************************)
(* Calls                                                                   *)
(***************************************************************************)
ObsKeys == {"louvain", "g1", "g2", "g3", "A", "B"}

VarKeys == {"sym", "c1", "c2", "c3", "zz", "PCs-0"}

Offsets == {0, 1}

KeysKinds == {"list", "iterator"}

ObsmRefs ==
    ({"X_umap", "X_tab"} \X Offsets) \cup {<<"X_sp", 1>>, <<"X_aw", 0>>}

VarmRefs ==
    ({"PCs", "L_tab"} \X Offsets) \cup {<<"L_sp", 1>>, <<"L_aw", 0>>}

Layers == {None, "counts"}

GeneSymbols == {None, "sym"}

Groups == {"0", "1", "7"}

PvalCutoffs == {<<>>, <<1>>, <<5>>, <<20>>}

Log2fcMins == {<<>>, <<-1>>, <<0>>}

Log2fcMaxs == {<<>>, <<1>>, <<3>>}

NoOutput ==
    /\ pc = "start"
    /\ status = "none"
    /\ err_keys = <<>>
    /\ lookup_keys = <<>>
    /\ not_found = <<>>
    /\ found_twice = <<>>
    /\ fetched = <<>>
    /\ df = <<>>
    /\ d_columns = <<>>
    /\ d = <<>>

Init ==
    /\ NoOutput
    /\ \/ /\ fn = "obs_df"
          /\ keys \in SeqsUpTo(ObsKeys, MaxKeys)
          /\ keys_kind \in KeysKinds
          /\ m_keys \in SeqsUpTo(ObsmRefs, MaxRefs)
          /\ layer \in Layers
          /\ gene_symbols \in GeneSymbols
          /\ use_raw \in BOOLEAN
          /\ group = None /\ pval_cutoff = <<>>
          /\ log2fc_min = <<>> /\ log2fc_max = <<>>
       \/ /\ fn = "var_df"
          /\ keys \in SeqsUpTo(VarKeys, MaxKeys)
          /\ keys_kind \in KeysKinds
          /\ m_keys \in SeqsUpTo(VarmRefs, MaxRefs)
          /\ layer \in Layers
          /\ gene_symbols = None
          /\ use_raw = FALSE
          /\ group = None /\ pval_cutoff = <<>>
          /\ log2fc_min = <<>> /\ log2fc_max = <<>>
       \/ /\ fn = "rank_genes_groups_df"
          /\ keys = <<>> /\ keys_kind = "list" /\ m_keys = <<>> /\ layer = None
          /\ gene_symbols \in GeneSymbols
          /\ use_raw = FALSE
          /\ group \in Groups
          /\ pval_cutoff \in PvalCutoffs
          /\ log2fc_min \in Log2fcMins
          /\ log2fc_max \in Log2fcMaxs

Args == <<fn, keys, keys_kind, m_keys, layer, gene_symbols, use_raw,
          group, pval_cutoff, log2fc_min, log2fc_max>>

obs_df ==
    /\ pc = "start" /\ fn = "obs_df"
    /\ LET res == obs_df_result(keys, keys_kind, m_keys, layer, gene_symbols,
                                use_raw)
       IN  /\ status' = res.status
           /\ err_keys' = res.err_keys
           /\ lookup_keys' = res.lookup_keys
           /\ not_found' = res.not_found
           /\ found_twice' = res.found_twice
           /\ fetched' = res.fetched
           /\ df' = res.df
    /\ pc' = "done"
    /\ UNCHANGED <<Args, d_columns, d>>

var_df ==
    /\ pc = "start" /\ fn = "var_df"
    /\ LET res == var_df_result(keys, keys_kind, m_keys, layer)
       IN  /\ status' = res.status
           /\ err_keys' = res.err_keys
           /\ lookup_keys' = res.lookup_keys
           /\ not_found' = res.not_found
           /\ found_twice' = res.found_twice
           /\ fetched' = res.fetched
           /\ df' = res.df
    /\ pc' = "done"
    /\ UNCHANGED <<Args, d_columns, d>>

rank_genes_groups_df ==
    /\ pc = "start" /\ fn = "rank_genes_groups_df"
    /\ LET res == rank_genes_groups_df_result(group, pval_cutoff, log2fc_min,
                                              log2fc_max, gene_symbols)
       IN  /\ status' = res.status
           /\ d_columns' = res.d_columns
           /\ d' = res.d
    /\ pc' = "done"
    /\ UNCHANGED <<Args, err_keys, lookup_keys, not_found, found_twice,
                   fetched, df>>

Next == obs_df \/ var_df \/ rank_genes_groups_df

Spec == Init /\ [][Next]_vars

(***************************************************************************)
(* Vocabulary of the properties, stated on the container and the           *)
(* arguments of the call, not on the resolution pass                       *)
(***************************************************************************)
Done == pc = "done"

Projection == fn \in {"obs_df", "var_df"}

\* both use_raw and a layer are given to obs_df
Conflict == fn = "obs_df" /\ use_raw /\ layer # None

\* first namespace: the columns of the metadata table
Meta(k) ==
    IF fn = "obs_df" THEN k \in adata_obs_columns ELSE k \in adata_var_columns

\* second namespace: the labels searched, and the canonical label each stands for
SearchedLabels ==
    IF fn = "var_df" THEN adata_obs_names
    ELSE IF gene_symbols = None
         THEN (IF use_raw THEN adata_raw_var_names ELSE adata_var_names)
         ELSE (IF use_raw THEN adata_raw_var_sym ELSE adata_var_sym)

CanonicalLabels ==
    IF fn = "var_df" THEN adata_obs_names
    ELSE IF use_raw THEN adata_raw_var_names ELSE adata_var_names

Indexed(k) == \E j \in 1..Len(SearchedLabels) : SearchedLabels[j] = k

Missing(k) == ~Meta(k) /\ ~Indexed(k)

Ambiguous(k) == Meta(k) /\ Indexed(k)

MissingKeys == SelectSeq(keys, Missing)

AmbiguousKeys == SelectSeq(keys, Ambiguous)

\* the lookup key the resolver owes to a key found in exactly one namespace
ExpectedLookup(k) ==
    IF Meta(k) THEN k
    ELSE CHOOSE c \in Range(CanonicalLabels) :
            \E j \in 1..Len(SearchedLabels) :
                SearchedLabels[j] = k /\ CanonicalLabels[j] = c

\* the resolution pass ended without raising
Resolved == Done /\ Projection /\ status \in {"ok", "KeyError:loc"}

MatrixOf(ref) == IF fn = "obs_df" THEN adata_obsm[ref[1]] ELSE adata_varm[ref[1]]

DerivedNames == {added_k(m_keys[j][1], m_keys[j][2]) : j \in 1..Len(m_keys)}

ColumnNamed(frame, name) ==
    frame[CHOOSE i \in 1..Len(frame) : frame[i].name = name]

(***************************************************************************)
(* C1                                                                      *)
(***************************************************************************)
\* C1: whenever the key list of obs_df or var_df holds a key found in
\* neither namespace (and use_raw and a layer are not both given), the call
\* fails with the not-found KeyError naming exactly the not-found keys, in
\* request order, also when the list holds ambiguous keys: not-found takes
\* precedence over the ambiguity error.
Claim_C1 ==
    (Done /\ Projection /\ ~Conflict /\ MissingKeys # <<>>)
        => (status = "KeyError:not_found" /\ err_keys = MissingKeys)

(***************************************************************************)
(* C2                                                                      *)
(***************************************************************************)
\* C2: obs_df called with use_raw and a layer raises ValueError whatever the
\* key list is, and no step of the resolution has run: the three lists of
\* the resolution pass are empty, no vector was read, no table was built.
Thm_C2 ==
    (Done /\ fn = "obs_df" /\ use_raw /\ layer # None)
        => /\ status = "ValueError"
           /\ lookup_keys = <<>> /\ not_found = <<>> /\ found_twice = <<>>
           /\ fetched = <<>> /\ df = <<>>

Wit_C2 ==
    /\ Done /\ fn = "obs_df" /\ use_raw /\ layer # None
    /\ MissingKeys # <<>> /\ AmbiguousKeys # <<>>
    /\ status = "ValueError"

(***************************************************************************)
(* C3                                                                      *)
(***************************************************************************)
\* C3: a key list of obs_df or var_df with at least one key found in both
\* namespaces and no key found in neither fails with the ambiguity KeyError,
\* which names every ambiguous key of the list in request order and no other
\* key; no vector is read and no table is returned.
Thm_C3 ==
    (Done /\ Projection /\ ~Conflict /\ AmbiguousKeys # <<>> /\ MissingKeys = <<>>)
        => /\ status = "KeyError:found_twice"
           /\ err_keys = AmbiguousKeys
           /\ fetched = <<>> /\ df = <<>>

Wit_C3 ==
    /\ Done /\ fn = "obs_df" /\ ~Conflict /\ MissingKeys = <<>>
    /\ Len(AmbiguousKeys) = 2 /\ AmbiguousKeys[1] # AmbiguousKeys[2]
    /\ status = "KeyError:found_twice" /\ err_keys = AmbiguousKeys

(***************************************************************************)
(* C4                                                                      *)
(***************************************************************************)
\* C4: every table returned by obs_df or var_df has len(keys) + len(embedding
\* refs) columns: the requested keys in request order, then one column
\* "{matrix-name}-{column-offset}" per embedding reference in request order.
Claim_C4 ==
    (Done /\ Projection /\ status = "ok")
        => /\ Len(df) = Len(keys) + Len(m_keys)
           /\ \A i \in 1..Len(keys) : df[i].name = keys[i]
           /\ \A j \in 1..Len(m_keys) :
                 df[Len(keys) + j].name = added_k(m_keys[j][1], m_keys[j][2])

(***************************************************************************)
(* C5                                                                      *)
(***************************************************************************)
\* C5: in obs_df, once the resolution pass has ended without raising, every
\* requested key has its vector read, in request order: from
\* adata.raw.obs_vector when use_raw is set and the key is an index match,
\* from adata.obs_vector when the key is a column of adata.obs whatever
\* use_raw is, and from adata.obs_vector with the requested layer when
\* use_raw is not set.
Claim_C5 ==
    (Resolved /\ fn = "obs_df")
        => /\ Len(fetched) = Len(keys)
           /\ \A i \in 1..Len(keys) :
                 /\ fetched[i].name = keys[i]
                 /\ (use_raw /\ ~Meta(keys[i]))
                        => fetched[i].src = "adata.raw.obs_vector"
                 /\ Meta(keys[i]) => fetched[i].src = "adata.obs_vector"
                 /\ ~use_raw => /\ fetched[i].src = "adata.obs_vector"
                                /\ fetched[i].layer = layer

(***************************************************************************)
(* C6                                                                      *)
(***************************************************************************)
\* the rows stored for the group, as the five parallel arrays give them
StoredRows ==
    [i \in 1..Len(adata_uns.names[group]) |->
        [scores |-> adata_uns.scores[group][i],
         names |-> adata_uns.names[group][i],
         logfoldchanges |-> adata_uns.logfoldchanges[group][i],
         pvals |-> adata_uns.pvals[group][i],
         pvals_adj |-> adata_uns.pvals_adj[group][i]]]

\* the row passes every threshold that is supplied
Passes(r) ==
    /\ pval_cutoff # <<>> => r.pvals_adj < pval_cutoff[1]
    /\ log2fc_min # <<>> => r.logfoldchanges > log2fc_min[1]
    /\ log2fc_max # <<>> => r.logfoldchanges < log2fc_max[1]

FiveColumns(rows) ==
    [i \in 1..Len(rows) |->
        [scores |-> rows[i].scores, names |-> rows[i].names,
         logfoldchanges |-> rows[i].logfoldchanges,
         pvals |-> rows[i].pvals, pvals_adj |-> rows[i].pvals_adj]]

\* C6: for a stored group, rank_genes_groups_df returns the columns scores,
\* names, logfoldchanges, pvals, pvals_adj in that order and exactly the
\* stored rows that pass every supplied threshold (strictly), in their
\* original relative order; a threshold that is not supplied removes no row.
Thm_C6 ==
    (Done /\ fn = "rank_genes_groups_df" /\ group \in DOMAIN adata_uns.names)
        => /\ status = "ok"
           /\ SubSeq(d_columns, 1, 5) = <<"scores", "names", "logfoldchanges",
                                          "pvals", "pvals_adj">>
           /\ FiveColumns(d) = SelectSeq(StoredRows, Passes)

Wit_C6 ==
    /\ Done /\ fn = "rank_genes_groups_df" /\ status = "ok"
    /\ pval_cutoff # <<>> /\ log2fc_min # <<>> /\ log2fc_max # <<>>
    /\ \E i \in 1..Len(StoredRows) : StoredRows[i].pvals_adj = pval_cutoff[1]
    /\ d # <<>> /\ Len(d) < Len(StoredRows)

(***************************************************************************)
(* C7                                                                      *)
(***************************************************************************)
\* C7 (as stated): a group label that is not stored raises no error and
\* yields an empty table.
Orig_C7 ==
    (Done /\ fn = "rank_genes_groups_df" /\ group \notin DOMAIN adata_uns.names)
        => (status = "ok" /\ d = <<>>)

\* C7 (amended): a group label that is not stored makes the call raise the
\* lookup error of the store and return no table; for a stored group no
\* error is raised, and thresholds that remove every row yield a table with
\* the five columns and no row.
Thm_C7 ==
    (Done /\ fn = "rank_genes_groups_df")
        => IF group \notin DOMAIN adata_uns.names
           THEN status = "Error:group" /\ d_columns = <<>> /\ d = <<>>
           ELSE /\ status = "ok"
                /\ Len(d_columns) >= 5
                /\ (\A i \in 1..Len(StoredRows) : ~Passes(StoredRows[i]))
                       => d = <<>>

Wit_C7 ==
    /\ Done /\ fn = "rank_genes_groups_df"
    /\ group \notin DOMAIN adata_uns.names
    /\ status = "Error:group"

\* a stored group whose rows are all removed: the empty table without error
Wit_C7_empty ==
    /\ Done /\ fn = "rank_genes_groups_df" /\ group \in DOMAIN adata_uns.names
    /\ \A i \in 1..Len(StoredRows) : ~Passes(StoredRows[i])
    /\ status = "ok" /\ d = <<>>

(***************************************************************************)
(* C8                                                                      *)
(***************************************************************************)
\* column at offset idx (counted from 0) of a stored matrix, by position
PositionalColumn(val, idx) == [r \in 1..Len(val.data) |-> val.data[r][idx + 1]]

\* C8: once the keys are resolved, every embedding reference (name, i) to a
\* dense, sparse or tabular matrix puts into the table the column at
\* position i of the matrix, whatever the labels of a tabular matrix are.
Claim_C8 ==
    (Done /\ Projection /\ status \in {"ok", "KeyError:loc"})
        => /\ status = "ok"
           /\ \A j \in 1..Len(m_keys) :
                 MatrixOf(m_keys[j]).kind \in {"ndarray", "spmatrix", "DataFrame"}
                     => ColumnNamed(df, added_k(m_keys[j][1], m_keys[j][2])).data
                            = PositionalColumn(MatrixOf(m_keys[j]), m_keys[j][2])

(***************************************************************************)
(* C9                                                                      *)
(***************************************************************************)
\* C9: in obs_df, once the resolution pass has ended without raising, every
\* requested key has its vector read with the lookup key (the key itself for
\* a column of adata.obs, otherwise the var_name that the alias mapping of
\* the container selected by use_raw gives for the key) and the returned
\* table has a column named by the key as the caller wrote it, holding that
\* vector unless an embedding column of the same name replaced it.
Claim_C9 ==
    (Resolved /\ fn = "obs_df")
        => /\ Len(fetched) = Len(keys)
           /\ \A i \in 1..Len(keys) :
                 /\ fetched[i].name = keys[i]
                 /\ fetched[i].key = ExpectedLookup(keys[i])
                 /\ status = "ok" =>
                       /\ HasColumn(df, keys[i])
                       /\ keys[i] \notin DerivedNames
                              => ColumnNamed(df, keys[i]) = fetched[i]

(***************************************************************************)
(* C10                                                                     *)
(***************************************************************************)
\* C10: in obs_df and var_df every key appends one lookup key, except a key
\* found in neither namespace, which appends none and is recorded; when the
\* resolution pass ends without raising, lookup_keys is as long as keys, its
\* i-th entry is the lookup key owed to the i-th key, and the zip of the
\* assembler pairs the i-th key with the i-th lookup key and drops no key; a
\* list with a key that appended no lookup key raises before any vector is
\* read.
Claim_C10 ==
    (Done /\ Projection /\ ~Conflict)
        => /\ Len(lookup_keys) + Len(not_found) = Len(keys)
           /\ not_found = MissingKeys
           /\ Resolved =>
                 /\ Len(lookup_keys) = Len(keys)
                 /\ Len(fetched) = Len(keys)
                 /\ \A i \in 1..Len(keys) :
                       /\ lookup_keys[i] = ExpectedLookup(keys[i])
                       /\ fetched[i].name = keys[i]
                       /\ fetched[i].key = lookup_keys[i]
           /\ Len(lookup_keys) < Len(keys) =>
                 /\ status \in {"KeyError:not_found", "KeyError:found_twice"}
                 /\ fetched = <<>> /\ df = <<>>

====
